---------------------------- MODULE Spec2Model ----------------------------
(***************************************************************************)
(* Conta Azul automation scripts.                                          *)
(*                                                                         *)
(*   conta_azul_cr.py          OAuth2 token lifecycle (OAuthHandler,       *)
(*                             get_access_token) and the SQLite sink       *)
(*                             (ensure_table, insert_records).             *)
(*   financial_events_sync.py  paginated fetch (fetch_all) and the Google  *)
(*                             Sheets sink (ensure_worksheet,              *)
(*                             records_to_rows, write_to_sheet, main).     *)
(*                                                                         *)
(* Python dicts are functions whose DOMAIN is the set of keys present.     *)
(* Every handler is one action; the remote servers' answers and the        *)
(* operator's inputs are drawn with \E from small sets.                    *)
(***************************************************************************)
EXTENDS Integers, Sequences, FiniteSets, TLC

VARIABLES
    files,        \* the file system: path -> parsed JSON content
    now,          \* time.time()
    environ,      \* os.environ, restricted to CONTA_AZUL_AUTH_CODE
    authLast,     \* the last OAuth operation: its requests, the answers, its outcome
    server,       \* the listing endpoint: items it holds, its own page limit
    page,         \* fetch_all: page
    collected,    \* fetch_all: collected
    total_expected, \* fetch_all: total_expected, <<>> for None
    fetchPc,      \* fetch_all: "loop", "returned" or "raised"
    fetchResult,  \* what fetch_all gave its caller: <<list>> once returned
    fetchError,   \* the exception fetch_all raised, "" for none
    exchanges,    \* fetch_all: each request sent with the response received
    records,      \* the record list handed to a sink
    values,       \* records_to_rows: <<its result>> once it has run
    db,           \* the SQLite file: table CR, its columns, its committed rows,
                  \* and the rows of the connection's open transaction
    connection,   \* conn: "open", "closed", or "none" when there is none
    insertCalls,  \* calls of insert_records on this connection
    insertOutcome, \* how the last call ended: "return" or the exception
    sheet,        \* the spreadsheet: worksheet title -> its non-empty cells
    sheetBefore,  \* the spreadsheet as the run found it
    sheetCalls,   \* the requests main sent to Google Sheets, in order
    syncPc,       \* main of financial_events_sync.py: the statement it is at
    args,         \* main: args.worksheet_cr and args.worksheet_cp
    contas_receber, \* main: <<the list fetched>> once fetched
    contas_pagar  \* main: <<the list fetched>> once fetched

authVars == <<files, now, environ, authLast>>
fetchVars == <<server, page, collected, total_expected, fetchPc, fetchResult,
               fetchError, exchanges>>

rowsVars == <<records, values>>

tableVars == <<db, connection, insertCalls, insertOutcome>>
syncVars == <<sheet, sheetBefore, sheetCalls, syncPc, args, contas_receber,
              contas_pagar>>

notAuthVars == <<fetchVars, rowsVars, tableVars, syncVars>>
notFetchVars == <<authVars, rowsVars, tableVars, syncVars>>
notRowsVars == <<authVars, fetchVars, tableVars, syncVars>>
notTableVars == <<authVars, fetchVars, values, syncVars>>
notSyncVars == <<authVars, fetchVars, rowsVars, tableVars>>

vars == <<authVars, fetchVars, rowsVars, tableVars, syncVars>>

(***************************************************************************)
(* Python dict helpers                                                     *)
(***************************************************************************)
EmptyDict == [k \in {} |-> 0]

\* d[k] = v
DictSet(d, k, v) == [x \in (DOMAIN d) \cup {k} |-> IF x = k THEN v ELSE d[x]]

\* d.get(k, default)
DictGet(d, k, default) == IF k \in DOMAIN d THEN d[k] ELSE default

Min(a, b) == IF a <= b THEN a ELSE b
Max(a, b) == IF a >= b THEN a ELSE b

(***************************************************************************)
(* Bounds and value sets of the OAuth model                                *)
(***************************************************************************)
MaxTime == 3

TOKEN_FILE == "tokens.json"
AUTH_CODE_VAR == "CONTA_AZUL_AUTH_CODE"

AccessTokens == {"A1", "A2"}
\* "" is a refresh_token the provider sent empty: falsy in Python
RefreshTokens == {"", "R1"}
ExpiresIn == {2}
AuthCodes == {"", "code1"}
Absent == "<absent>"
AbsentInt == -1

\* a JSON object answered by the token endpoint: each field may be missing
TokenBody(at, rt, ei) ==
    [k \in ({"access_token" : x \in {at} \ {Absent}}
            \cup {"refresh_token" : x \in {rt} \ {Absent}}
            \cup {"expires_in" : x \in {ei} \ {AbsentInt}}) |->
        CASE k = "access_token" -> at
          [] k = "refresh_token" -> rt
          [] OTHER -> ei]

TokenBodies ==
    {TokenBody(at, rt, ei) : at \in AccessTokens \cup {Absent},
                             rt \in RefreshTokens \cup {Absent},
                             ei \in ExpiresIn \cup {AbsentInt}}

\* the token endpoint's answer: a 2xx status with a JSON object, or a non-2xx
TokenResponses ==
    {[ok |-> TRUE, body |-> b] : b \in TokenBodies}
        \cup {[ok |-> FALSE, body |-> EmptyDict]}

(***************************************************************************)
(* Outcomes of a call                                                      *)
(***************************************************************************)
Return(v) == [kind |-> "return", value |-> v]
Raise(e, v) == [kind |-> e, value |-> v]
NoOutcome == [kind |-> "none", value |-> <<>>]

(***************************************************************************)
(* OAuthHandler                                                            *)
(***************************************************************************)
\* a test for None only: the empty string passes
Truthy_NotNone(s) == s # Absent

\* bool(x) of a str-or-None value read with .get()
Truthy(s) == s # Absent /\ s # ""

\* OAuthHandler.load_tokens: the parsed file, or None (modelled as no file)
TokensStored(fs) == TOKEN_FILE \in DOMAIN fs

load_tokens(fs) == fs[TOKEN_FILE]

\* a save that updates the stored dict instead of replacing it
save_tokens_Merge(fs, tokens) ==
    LET old == DictGet(fs, TOKEN_FILE, EmptyDict)
    IN  DictSet(fs, TOKEN_FILE,
                [k \in (DOMAIN old) \cup (DOMAIN tokens) |->
                    IF k \in DOMAIN tokens THEN tokens[k] ELSE old[k]])

\* OAuthHandler.save_tokens: open(..., "w") truncates, json.dump writes the dict
save_tokens(fs, tokens) == DictSet(fs, TOKEN_FILE, tokens)

\* OAuthHandler.authorization_url with the default state
authorization_url ==
    <<"https://auth.contaazul.com/oauth2/authorize", "response_type=code",
      "client_id", "redirect_uri", "state=state",
      "scope=openid profile aws.cognito.signin.user.admin">>

\* The POST of exchange_code / refresh and what follows it:
\* raise_for_status, resp.json(), expires_at, save_tokens.
\* Gives the file system after the call and the dict returned (or the error).
StampExpiry(body, t) ==
    DictSet(body, "expires_at", t + DictGet(body, "expires_in", 0))

\* the answer stored before its status is looked at
TokenPost_SaveBeforeStatus(fs, resp, t) ==
    LET tokens == StampExpiry(resp.body, t)
    IN  [files |-> save_tokens(fs, tokens), ok |-> resp.ok, tokens |-> tokens]

TokenPost(fs, resp, t) ==
    IF ~resp.ok
    THEN [files |-> fs, ok |-> FALSE, tokens |-> EmptyDict]
    ELSE LET tokens == StampExpiry(resp.body, t)
         IN  [files |-> save_tokens(fs, tokens), ok |-> TRUE, tokens |-> tokens]

RefreshRequest(rt) == [grant_type |-> "refresh_token", arg |-> rt]
CodeRequest(code) == [grant_type |-> "authorization_code", arg |-> code]

\* the expiry comparison turned around
TokenIsFresh_Reversed(tokens, t) == DictGet(tokens, "expires_at", 0) < t

\* tokens.get("expires_at", 0) > time.time()
TokenIsFresh(tokens, t) == DictGet(tokens, "expires_at", 0) > t

\* tokens["access_token"] of a dict: the value, or KeyError
AccessTokenOf(tokens) ==
    IF "access_token" \in DOMAIN tokens
    THEN Return(<<tokens["access_token"]>>)
    ELSE Raise("KeyError", <<"access_token">>)

\* get_access_token, whole: the file system and environment it leaves, the
\* requests it sent to the token endpoint, and how it ended
get_access_token(fs, env, t, resp) ==
    LET tokens == IF TokensStored(fs) THEN load_tokens(fs) ELSE EmptyDict
        stored == TokensStored(fs) /\ DOMAIN tokens # {}
        code   == DictGet(env, AUTH_CODE_VAR, Absent)
    IN  IF stored /\ TokenIsFresh(tokens, t)
        THEN [files |-> fs, environ |-> env, calls |-> <<>>, replies |-> <<>>,
              outcome |-> AccessTokenOf(tokens)]
        ELSE IF stored /\ Truthy(DictGet(tokens, "refresh_token", Absent))
        THEN LET r == TokenPost(fs, resp, t)
             IN  [files |-> r.files, environ |-> env,
                  calls |-> <<RefreshRequest(tokens["refresh_token"])>>,
                  replies |-> <<resp>>,
                  outcome |-> IF r.ok THEN AccessTokenOf(r.tokens)
                              ELSE Raise("HTTPError", <<>>)]
        ELSE IF ~Truthy(code)
        THEN [files |-> fs, environ |-> env, calls |-> <<>>, replies |-> <<>>,
              outcome |-> Raise("SystemExit", authorization_url)]
        ELSE LET r == TokenPost(fs, resp, t)
             IN  [files |-> r.files,
                  \* os.environ.pop runs only when exchange_code returned
                  environ |-> IF r.ok
                              THEN [k \in (DOMAIN env) \ {AUTH_CODE_VAR} |-> env[k]]
                              ELSE env,
                  calls |-> <<CodeRequest(code)>>,
                  replies |-> <<resp>>,
                  outcome |-> IF r.ok THEN AccessTokenOf(r.tokens)
                              ELSE Raise("HTTPError", <<>>)]

AuthRecord(op, calls, replies, outcome) ==
    [op |-> op, calls |-> calls, replies |-> replies, outcome |-> outcome]

AuthStart ==
    /\ files = EmptyDict
    /\ now = 0
    /\ environ = EmptyDict
    /\ authLast = AuthRecord("none", <<>>, <<>>, NoOutcome)

\* the part of the state the OAuth operations never touch
FetchIdle ==
    /\ server = [held |-> 0, limit |-> 0]
    /\ page = 0
    /\ collected = <<>>
    /\ total_expected = <<>>
    /\ fetchPc = "idle"
    /\ fetchResult = <<>>
    /\ fetchError = ""
    /\ exchanges = <<>>

RowsIdle ==
    /\ records = <<>>
    /\ values = <<>>

NoTable == [exists |-> FALSE, columns |-> <<>>, rows |-> <<>>, pending |-> <<>>]

TableIdle ==
    /\ db = NoTable
    /\ connection = "none"
    /\ insertCalls = 0
    /\ insertOutcome = "none"

SyncIdle ==
    /\ sheet = EmptyDict
    /\ sheetBefore = EmptyDict
    /\ sheetCalls = <<>>
    /\ syncPc = "idle"
    /\ args = [worksheet_cr |-> "", worksheet_cp |-> ""]
    /\ contas_receber = <<>>
    /\ contas_pagar = <<>>

AuthInit == AuthStart /\ FetchIdle /\ RowsIdle /\ TableIdle /\ SyncIdle

\* a caller runs get_access_token(auth)
GetAccessToken ==
    \E resp \in TokenResponses :
        LET r == get_access_token(files, environ, now, resp)
        IN  /\ files' = r.files
            /\ environ' = r.environ
            /\ authLast' = AuthRecord("get_access_token", r.calls, r.replies, r.outcome)
            /\ UNCHANGED <<now, notAuthVars>>

\* a caller runs auth.exchange_code(code)
ExchangeCode ==
    \E code \in AuthCodes, resp \in TokenResponses :
        LET r == TokenPost(files, resp, now)
        IN  /\ files' = r.files
            /\ authLast' = AuthRecord("exchange_code", <<CodeRequest(code)>>, <<resp>>,
                                      IF r.ok THEN Return(<<"tokens">>)
                                      ELSE Raise("HTTPError", <<>>))
            /\ UNCHANGED <<now, environ, notAuthVars>>

\* a caller runs auth.refresh(refresh_token)
Refresh ==
    \E rt \in RefreshTokens, resp \in TokenResponses :
        LET r == TokenPost(files, resp, now)
        IN  /\ files' = r.files
            /\ authLast' = AuthRecord("refresh", <<RefreshRequest(rt)>>, <<resp>>,
                                      IF r.ok THEN Return(<<"tokens">>)
                                      ELSE Raise("HTTPError", <<>>))
            /\ UNCHANGED <<now, environ, notAuthVars>>

\* the operator exports or unsets CONTA_AZUL_AUTH_CODE between runs
SetAuthCode ==
    /\ \E e \in {EmptyDict} \cup {DictSet(EmptyDict, AUTH_CODE_VAR, c) : c \in AuthCodes} :
           /\ e # environ
           /\ environ' = e
    /\ authLast' = AuthRecord("setenv", <<>>, <<>>, NoOutcome)
    /\ UNCHANGED <<files, now, notAuthVars>>

\* time passes between calls
Tick ==
    /\ now < MaxTime
    /\ now' = now + 1
    /\ authLast' = AuthRecord("tick", <<>>, <<>>, NoOutcome)
    /\ UNCHANGED <<files, environ, notAuthVars>>

AuthNext == GetAccessToken \/ ExchangeCode \/ Refresh \/ SetAuthCode \/ Tick

SpecAuth == AuthInit /\ [][AuthNext]_vars

(***************************************************************************)
(* fetch_all (financial_events_sync.py)                                    *)
(*                                                                         *)
(* A JSON object of a page's itens is a positive number, its identity: the *)
(* server's k-th event is k.  NonObject is an element that is not a JSON   *)
(* object.  A response is kept compact: its itens are `count` consecutive  *)
(* events from `first`, with the element at badAt (if any) not an object.  *)
(***************************************************************************)
PAGE_SIZE == 100

\* the most events the server holds
MaxItems == 250
\* the most events held by a server that serves one event per page
MaxShort == 3

NonObject == 0

ItemsOf(resp) ==
    [i \in 1..resp.count |-> IF i = resp.badAt THEN NonObject ELSE resp.first + i - 1]

\* the servers: one that honours tamanho_pagina, one that caps pages at 1
Servers ==
    {[held |-> t, limit |-> PAGE_SIZE] : t \in 0..MaxItems}
        \cup {[held |-> t, limit |-> 1] : t \in 0..MaxShort}

\* the page of its events the server serves for a request
ServedSize(srv, req) == Min(req.tamanho_pagina, srv.limit)
ServedFirst(srv, req) == (req.pagina - 1) * ServedSize(srv, req) + 1
ServedCount(srv, req) ==
    Max(0, Min(ServedSize(srv, req), srv.held - (req.pagina - 1) * ServedSize(srv, req)))

\* a 2xx response with a well-formed envelope declaring `total`
GoodPage(srv, req, total) ==
    [status_ok |-> TRUE, isJson |-> TRUE, isDict |-> TRUE, keys |-> {"itens", "itens_totais"},
     itensIsList |-> TRUE, first |-> ServedFirst(srv, req),
     count |-> ServedCount(srv, req), badAt |-> 0,
     totalIsInt |-> TRUE, total |-> total]

\* totals a server may declare: the true one, or one too low or too high
DeclaredTotals(srv) == {0, srv.held, srv.held + 1}

\* everything the endpoint may answer to a request
PageResponses(srv, req) ==
    LET good == GoodPage(srv, req, srv.held)
    IN  {GoodPage(srv, req, t) : t \in DeclaredTotals(srv)}
          \cup {[good EXCEPT !.status_ok = FALSE],
                [good EXCEPT !.isJson = FALSE, !.isDict = FALSE, !.keys = {}],
                [good EXCEPT !.isDict = FALSE, !.keys = {}],
                [good EXCEPT !.keys = {"itens"}],
                [good EXCEPT !.keys = {"itens_totais"}],
                [good EXCEPT !.itensIsList = FALSE],
                [good EXCEPT !.totalIsInt = FALSE]}
          \cup {[good EXCEPT !.badAt = j] : j \in {1, good.count} \ {0}}

\* the for loop over items: the items appended before the first element
\* that is not a JSON object, and whether there was such an element
AppendItems(acc, items) ==
    LET bad == {i \in 1..Len(items) : items[i] = NonObject}
        stop == IF bad = {} THEN Len(items) + 1
                ELSE CHOOSE i \in bad : \A j \in bad : i <= j
    IN  [collected |-> acc \o SubSeq(items, 1, stop - 1), failed |-> bad # {}]

\* the loop's exit test without the empty-page guard
StopFetching_TotalOnly(acc, expected, items) == Len(acc) >= expected

\* len(collected) >= total_expected or not items
StopFetching(acc, expected, items) == Len(acc) >= expected \/ items = <<>>

\* the increment skipping a page
NextPage_Skip(p) == p + 2

\* page += 1
NextPage(p) == p + 1

\* the total taken anew from every page
CaptureTotal_Latest(expected, total) == <<total>>

\* if total_expected is None: total_expected = total
CaptureTotal(expected, total) == IF expected = <<>> THEN <<total>> ELSE expected

FetchRaise(err, acc, expected, p) ==
    [pc |-> "raised", error |-> err, collected |-> acc, total_expected |-> expected,
     page |-> p, result |-> <<>>]

\* the envelope checks without the one for itens_totais
EnvelopeError_NoTotalCheck(resp) ==
    IF ~resp.isDict THEN "ApiError: objeto JSON deve ser um dicionario"
    ELSE IF "itens" \notin resp.keys THEN "ApiError: campo 'itens' ausente"
    ELSE IF ~resp.itensIsList THEN "ApiError: campo 'itens' deve ser uma lista"
    ELSE ""

\* the checks of the payload's envelope, in the code's order: the message of
\* the ApiError raised, "" when the envelope passes
EnvelopeError(resp) ==
    IF ~resp.isDict THEN "ApiError: objeto JSON deve ser um dicionario"
    ELSE IF "itens" \notin resp.keys THEN "ApiError: campo 'itens' ausente"
    ELSE IF "itens_totais" \notin resp.keys THEN "ApiError: campo 'itens_totais' ausente"
    ELSE IF ~resp.itensIsList THEN "ApiError: campo 'itens' deve ser uma lista"
    ELSE ""

\* one iteration of the while loop of fetch_all, from the response on
fetch_iteration(acc, expected, p, resp) ==
    IF ~resp.status_ok
    THEN FetchRaise("HTTPError", acc, expected, p)
    \* response.json() of a body that is not JSON
    ELSE IF ~resp.isJson
    THEN FetchRaise("JSONDecodeError", acc, expected, p)
    ELSE IF EnvelopeError(resp) # ""
    THEN FetchRaise(EnvelopeError(resp), acc, expected, p)
    ELSE IF ~resp.totalIsInt
    THEN FetchRaise("TypeError", acc, expected, p)
    ELSE LET items == ItemsOf(resp)
             exp1 == CaptureTotal(expected, resp.total)
             app == AppendItems(acc, items)
         IN  IF app.failed
             THEN FetchRaise("ApiError: cada item deve ser um objeto JSON",
                             app.collected, exp1, p)
             ELSE IF StopFetching(app.collected, exp1[1], items)
             THEN [pc |-> "returned", error |-> "", collected |-> app.collected,
                   total_expected |-> exp1, page |-> p,
                   result |-> <<app.collected>>]
             ELSE [pc |-> "loop", error |-> "", collected |-> app.collected,
                   total_expected |-> exp1, page |-> NextPage(p), result |-> <<>>]

\* the parameters of the GET
PageRequest(p) == [pagina |-> p, tamanho_pagina |-> PAGE_SIZE]

\* fetch_all is called against some server: collected = [], page = 1
FetchStart ==
    /\ server \in Servers
    /\ page = 1
    /\ collected = <<>>
    /\ total_expected = <<>>
    /\ fetchPc = "loop"
    /\ fetchResult = <<>>
    /\ fetchError = ""
    /\ exchanges = <<>>

FetchInit == FetchStart /\ AuthStart /\ RowsIdle /\ TableIdle /\ SyncIdle

\* one pass through the loop body: session.get and all that follows
FetchPage ==
    /\ fetchPc = "loop"
    /\ \E resp \in PageResponses(server, PageRequest(page)) :
          LET r == fetch_iteration(collected, total_expected, page, resp)
          IN  /\ fetchPc' = r.pc
              /\ fetchError' = r.error
              /\ collected' = r.collected
              /\ total_expected' = r.total_expected
              /\ page' = r.page
              /\ fetchResult' = r.result
              /\ exchanges' = Append(exchanges,
                                     [request |-> PageRequest(page), response |-> resp])
    /\ UNCHANGED <<server, notFetchVars>>

FetchNext == FetchPage

SpecFetch == FetchInit /\ [][FetchNext]_vars

\* fetch_all is sequential code and its GET carries timeout=60: while the
\* loop runs, its next iteration is eventually taken
SpecFetchFair == FetchInit /\ [][FetchNext]_vars /\ WF_vars(FetchPage)

(***************************************************************************)
(* Financial event records                                                 *)
(*                                                                         *)
(* A JSON value is [k, i, s]: null, the int i, the str s, or the array     *)
(* [i].  A record is a Python dict, which keeps insertion order: the       *)
(* sequence of its (key, value) fields, keys distinct.                     *)
(***************************************************************************)
Null == [k |-> "null", i |-> 0, s |-> ""]
IntVal(n) == [k |-> "int", i |-> n, s |-> ""]
StrVal(t) == [k |-> "str", i |-> 0, s |-> t]
ListVal(n) == [k |-> "list", i |-> n, s |-> ""]

\* the most records in a list
MaxRecords == 2

\* the key orders of the records: up to two of the keys a, b, c, any order
KeyOrders ==
    {<<>>, <<"a">>, <<"b">>, <<"c">>,
     <<"a", "b">>, <<"b", "a">>, <<"a", "c">>, <<"c", "a">>,
     <<"b", "c">>, <<"c", "b">>}

RecordsOver(orders, vals) ==
    UNION {{[i \in DOMAIN ks |-> [key |-> ks[i], value |-> f[i]]] :
               f \in [DOMAIN ks -> vals]} : ks \in orders}

ListsOf(S, n) == UNION {[1..m -> S] : m \in 0..n}

\* record.keys()
Keys(record) == [i \in DOMAIN record |-> record[i].key]

\* key in record
HasKey(record, key) == \E i \in DOMAIN record : record[i].key = key

\* record.get(key): the value, None when the key is absent
Get(record, key) ==
    IF HasKey(record, key)
    THEN record[CHOOSE i \in DOMAIN record : record[i].key = key].value
    ELSE Null

Contains(seq, x) == \E i \in DOMAIN seq : seq[i] = x

\* json.dumps(value, ensure_ascii=False)
RECURSIVE DumpFields(_)
JsonDumpsValue(v) ==
    CASE v.k = "null" -> "null"
      [] v.k = "int" -> ToString(v.i)
      [] v.k = "str" -> "\"" \o v.s \o "\""
      [] OTHER -> "[" \o ToString(v.i) \o "]"

DumpFields(record) ==
    IF record = <<>> THEN ""
    ELSE "\"" \o record[1].key \o "\": " \o JsonDumpsValue(record[1].value)
           \o (IF Len(record) = 1 THEN "" ELSE ", " \o DumpFields(Tail(record)))

JsonDumpsRecord(record) == "{" \o DumpFields(record) \o "}"

(***************************************************************************)
(* The Google Sheets sink (financial_events_sync.py)                       *)
(***************************************************************************)
\* normalise_value
normalise_value(value) ==
    IF value.k = "null" THEN StrVal("")
    ELSE IF value.k = "list" THEN StrVal(JsonDumpsValue(value))
    ELSE value

\* the inner loop of records_to_rows: append the keys not yet in columns
RECURSIVE AddColumns(_, _)
AddColumns(columns, keys) ==
    IF keys = <<>> THEN columns
    ELSE AddColumns(IF Contains(columns, keys[1]) THEN columns
                    ELSE Append(columns, keys[1]),
                    Tail(keys))

\* the outer loop of records_to_rows: the columns after all the records
RECURSIVE UnionColumns(_, _)
UnionColumns(columns, recs) ==
    IF recs = <<>> THEN columns
    ELSE UnionColumns(AddColumns(columns, Keys(recs[1])), Tail(recs))

\* columns taken from the first record alone
records_to_rows_FirstRecordColumns(recs) ==
    LET columns == IF recs = <<>> THEN <<>> ELSE Keys(recs[1])
    IN  IF columns = <<>>
        THEN <<<<StrVal("raw_json")>>>>
               \o [r \in DOMAIN recs |-> <<StrVal(JsonDumpsRecord(recs[r]))>>]
        ELSE <<[c \in DOMAIN columns |-> StrVal(columns[c])]>>
               \o [r \in DOMAIN recs |->
                     [c \in DOMAIN columns |-> normalise_value(Get(recs[r], columns[c]))]]

\* records_to_rows
records_to_rows(recs) ==
    LET columns == UnionColumns(<<>>, recs)
    IN  IF columns = <<>>
        THEN <<<<StrVal("raw_json")>>>>
               \o [r \in DOMAIN recs |-> <<StrVal(JsonDumpsRecord(recs[r]))>>]
        ELSE <<[c \in DOMAIN columns |-> StrVal(columns[c])]>>
               \o [r \in DOMAIN recs |->
                     [c \in DOMAIN columns |-> normalise_value(Get(recs[r], columns[c]))]]

\* the records of the sheet sink: null, scalar and nested values
SheetRecords == RecordsOver(KeyOrders, {Null, IntVal(3), ListVal(4)})

RowsStart ==
    /\ records \in ListsOf(SheetRecords, MaxRecords)
    /\ values = <<>>

RowsInit == RowsStart /\ AuthStart /\ FetchIdle /\ TableIdle /\ SyncIdle

\* a caller runs records_to_rows(records)
RecordsToRows ==
    /\ values = <<>>
    /\ values' = <<records_to_rows(records)>>
    /\ UNCHANGED <<records, notRowsVars>>

RowsNext == RecordsToRows

SpecRows == RowsInit /\ [][RowsNext]_vars

(***************************************************************************)
(* The SQLite sink (conta_azul_cr.py)                                      *)
(*                                                                         *)
(* Columns are declared TEXT: SQLite stores an int bound to one as its     *)
(* decimal text.  sqlite3 cannot bind a list or a dict.  CREATE TABLE runs *)
(* outside a transaction; the INSERTs open one, which conn.commit() ends   *)
(* and conn.close() abandons.                                              *)
(***************************************************************************)
\* the most calls of insert_records on one connection
MaxCalls == 2

\* the value SQLite stores in a TEXT column
TextAffinity(v) ==
    IF v.k = "int" THEN StrVal(ToString(v.i)) ELSE v

\* whether sqlite3 can bind the value to a "?"
Bindable(v) == v.k # "list"

\* ensure_table: the database after it, and the error it raised if any
ensure_table(d, sample_record) ==
    IF d.exists THEN [db |-> d, error |-> ""]
    ELSE IF Keys(sample_record) = <<>>
    \* CREATE TABLE IF NOT EXISTS CR (): a syntax error
    THEN [db |-> d, error |-> "OperationalError"]
    ELSE [db |-> [d EXCEPT !.exists = TRUE, !.columns = Keys(sample_record)],
          error |-> ""]

\* [record.get(col) for col in existing_cols], as stored
RowOf(cols, record) == [c \in DOMAIN cols |-> TextAffinity(Get(record, cols[c]))]

\* the INSERTs of a call that reached conn.commit()
insert_rows(d, rows) == [d EXCEPT !.rows = @ \o d.pending \o rows, !.pending = <<>>]

\* insert_records, whole
insert_records(d, recs) ==
    IF recs = <<>> THEN [db |-> d, outcome |-> "return"]
    ELSE LET e == ensure_table(d, recs[1])
         IN  IF e.error # "" THEN [db |-> e.db, outcome |-> e.error]
             ELSE LET cols == e.db.columns
                      bad == {r \in DOMAIN recs :
                                 \E c \in DOMAIN cols : ~Bindable(Get(recs[r], cols[c]))}
                      n == IF bad = {} THEN Len(recs)
                           ELSE (CHOOSE r \in bad : \A q \in bad : r <= q) - 1
                      inserted == [r \in 1..n |-> RowOf(cols, recs[r])]
                  IN  IF bad = {}
                      THEN [db |-> insert_rows(e.db, inserted), outcome |-> "return"]
                      ELSE [db |-> [e.db EXCEPT !.pending = @ \o inserted],
                            outcome |-> "ProgrammingError"]

\* the records of the table sink: scalar and nested values
TableRecords == RecordsOver(KeyOrders, {IntVal(3), ListVal(4)})

\* the database as earlier runs may have left it
PriorTables ==
    {NoTable,
     [exists |-> TRUE, columns |-> <<"a", "b">>, rows |-> <<>>, pending |-> <<>>],
     [exists |-> TRUE, columns |-> <<"b", "c">>,
      rows |-> << <<StrVal("3"), Null>> >>, pending |-> <<>>]}

\* main of conta_azul_cr.py has connected; `records` is what the API returns
TableStart ==
    /\ db \in PriorTables
    /\ connection = "open"
    /\ insertCalls = 0
    /\ insertOutcome = "none"
    /\ records \in ListsOf(TableRecords, MaxRecords)
    /\ values = <<>>

\* main: insert_records(conn, data) for one more month
InsertRecords ==
    /\ connection = "open"
    /\ insertOutcome \in {"none", "return"}
    /\ insertCalls < MaxCalls
    /\ LET r == insert_records(db, records)
       IN  /\ db' = r.db
           /\ insertOutcome' = r.outcome
    /\ insertCalls' = insertCalls + 1
    /\ UNCHANGED <<connection, records, notTableVars>>

\* main: finally conn.close()
CloseConnection ==
    /\ connection = "open"
    /\ connection' = "closed"
    /\ db' = [db EXCEPT !.pending = <<>>]
    /\ UNCHANGED <<insertCalls, insertOutcome, records, notTableVars>>

TableNext == InsertRecords \/ CloseConnection

TableInit == TableStart /\ AuthStart /\ FetchIdle /\ SyncIdle

SpecTable == TableInit /\ [][TableNext]_vars

(***************************************************************************)
(* main of financial_events_sync.py and the worksheet calls                *)
(*                                                                         *)
(* A worksheet is the function from (row, column) to the value of each     *)
(* cell that is not empty.  A cell written with "" is empty.               *)
(***************************************************************************)
\* the most records a fetch returns in the sync model
MaxSyncRecords == 2

WORKSHEET_CR == "CR"
WORKSHEET_CP == "CP"

EmptyGrid == EmptyDict

CellsWritten(vals) == UNION {{<<r, c>> : c \in DOMAIN vals[r]} : r \in DOMAIN vals}

\* worksheet.update("A1", values): the cells of values are written from A1
\* on, the other cells stay as they are
Update(grid, vals) ==
    LET written == CellsWritten(vals)
        kept == {p \in (DOMAIN grid) \cup written :
                    p \in written => vals[p[1]][p[2]] # StrVal("")}
    IN  [p \in kept |-> IF p \in written THEN vals[p[1]][p[2]] ELSE grid[p]]

SheetCall(op, name) == [op |-> op, worksheet |-> name]

\* an ensure_worksheet that does not clear
ensure_worksheet_NoClear(sh, name) ==
    IF name \in DOMAIN sh
    THEN [sheet |-> sh, calls |-> <<SheetCall("worksheet", name)>>]
    ELSE [sheet |-> DictSet(sh, name, EmptyGrid),
          calls |-> <<SheetCall("worksheet", name), SheetCall("add_worksheet", name)>>]

\* ensure_worksheet: the spreadsheet after it and the requests it sent
ensure_worksheet(sh, name) ==
    IF name \in DOMAIN sh
    THEN [sheet |-> DictSet(sh, name, EmptyGrid),
          calls |-> <<SheetCall("worksheet", name), SheetCall("clear", name)>>]
    ELSE [sheet |-> DictSet(sh, name, EmptyGrid),
          calls |-> <<SheetCall("worksheet", name), SheetCall("add_worksheet", name),
                      SheetCall("clear", name)>>]

\* a write_to_sheet without the test for an empty list
write_to_sheet_NoGuard(sh, name, recs) ==
    [sheet |-> DictSet(sh, name, Update(sh[name], records_to_rows(recs))),
     calls |-> <<SheetCall("update", name)>>]

\* write_to_sheet: the spreadsheet after it and the requests it sent
write_to_sheet(sh, name, recs) ==
    IF recs = <<>>
    THEN [sheet |-> sh, calls |-> <<>>]
    ELSE [sheet |-> DictSet(sh, name, Update(sh[name], records_to_rows(recs))),
          calls |-> <<SheetCall("update", name)>>]

\* what fetch_all may return in the sync model
SyncRecords == RecordsOver({<<>>, <<"a">>, <<"b", "a">>}, {IntVal(3)})
SyncLists == ListsOf(SyncRecords, MaxSyncRecords)

\* cells left by an earlier run, inside and outside what this run writes
OldGrid == (<<1, 1>> :> StrVal("old")) @@ (<<2, 2>> :> StrVal("old"))
              @@ (<<9, 9>> :> StrVal("old"))

\* the worksheet names the operator may pass: the defaults, and either name
\* given for both event types
WorksheetNames == {WORKSHEET_CR, WORKSHEET_CP}

\* the spreadsheet as the run may find it: each tab missing or with old cells
PriorSheets ==
    {[t \in tabs |-> OldGrid] : tabs \in SUBSET WorksheetNames}

\* main, with the arguments parsed and the clients built
SyncStart ==
    /\ sheet \in PriorSheets
    /\ sheetBefore = sheet
    /\ sheetCalls = <<>>
    /\ syncPc = "ensure_cr"
    /\ args \in [worksheet_cr : WorksheetNames, worksheet_cp : WorksheetNames]
    /\ contas_receber = <<>>
    /\ contas_pagar = <<>>

\* worksheet_cr = ensure_worksheet(spreadsheet, args.worksheet_cr)
EnsureWorksheetCR ==
    /\ syncPc = "ensure_cr"
    /\ LET r == ensure_worksheet(sheet, args.worksheet_cr)
       IN  /\ sheet' = r.sheet
           /\ sheetCalls' = sheetCalls \o r.calls
    /\ syncPc' = "ensure_cp"
    /\ UNCHANGED <<sheetBefore, args, contas_receber, contas_pagar, notSyncVars>>

\* worksheet_cp = ensure_worksheet(spreadsheet, args.worksheet_cp)
EnsureWorksheetCP ==
    /\ syncPc = "ensure_cp"
    /\ LET r == ensure_worksheet(sheet, args.worksheet_cp)
       IN  /\ sheet' = r.sheet
           /\ sheetCalls' = sheetCalls \o r.calls
    /\ syncPc' = "fetch_cr"
    /\ UNCHANGED <<sheetBefore, args, contas_receber, contas_pagar, notSyncVars>>

\* contas_receber = fetch_all(session, CR_ENDPOINT, ...)
FetchReceber ==
    /\ syncPc = "fetch_cr"
    /\ \E recs \in SyncLists : contas_receber' = <<recs>>
    /\ syncPc' = "fetch_cp"
    /\ UNCHANGED <<sheet, sheetBefore, sheetCalls, args, contas_pagar, notSyncVars>>

\* contas_pagar = fetch_all(session, CP_ENDPOINT, ...)
FetchPagar ==
    /\ syncPc = "fetch_cp"
    /\ \E recs \in SyncLists : contas_pagar' = <<recs>>
    /\ syncPc' = "write_cr"
    /\ UNCHANGED <<sheet, sheetBefore, sheetCalls, args, contas_receber, notSyncVars>>

\* either fetch_all raises: main ends there
FetchRaises ==
    /\ syncPc \in {"fetch_cr", "fetch_cp"}
    /\ syncPc' = "failed"
    /\ UNCHANGED <<sheet, sheetBefore, sheetCalls, args, contas_receber,
                   contas_pagar, notSyncVars>>

\* write_to_sheet(worksheet_cr, contas_receber)
WriteReceber ==
    /\ syncPc = "write_cr"
    /\ LET r == write_to_sheet(sheet, args.worksheet_cr, contas_receber[1])
       IN  /\ sheet' = r.sheet
           /\ sheetCalls' = sheetCalls \o r.calls
    /\ syncPc' = "write_cp"
    /\ UNCHANGED <<sheetBefore, args, contas_receber, contas_pagar, notSyncVars>>

\* write_to_sheet(worksheet_cp, contas_pagar)
WritePagar ==
    /\ syncPc = "write_cp"
    /\ LET r == write_to_sheet(sheet, args.worksheet_cp, contas_pagar[1])
       IN  /\ sheet' = r.sheet
           /\ sheetCalls' = sheetCalls \o r.calls
    /\ syncPc' = "done"
    /\ UNCHANGED <<sheetBefore, args, contas_receber, contas_pagar, notSyncVars>>

SyncNext ==
    \/ EnsureWorksheetCR
    \/ EnsureWorksheetCP
    \/ FetchReceber
    \/ FetchPagar
    \/ FetchRaises
    \/ WriteReceber
    \/ WritePagar

SyncInit == SyncStart /\ AuthStart /\ FetchIdle /\ RowsIdle /\ TableIdle

SpecSync == SyncInit /\ [][SyncNext]_vars

\* either script runs against its sink
SinksInit == TableInit \/ SyncInit

SinksNext == TableNext \/ SyncNext

SpecSinks == SinksInit /\ [][SinksNext]_vars

(***************************************************************************)
(* OAuth claims, checked under SpecAuth.  A step whose authLast' names     *)
(* get_access_token is one call of it: the unprimed variables are the      *)
(* state it was called in, the primed ones the state it left.              *)
(***************************************************************************)
CallOfGetAccessToken == authLast'.op = "get_access_token"

\* C1: a stored credential record whose expires_at is strictly greater than
\* the current time makes get_access_token return the stored access_token,
\* send nothing to the token endpoint and leave the token file as it was.
C1_FreshTokenFastPath ==
    [][(/\ CallOfGetAccessToken
        /\ TOKEN_FILE \in DOMAIN files
        /\ {"access_token", "expires_at"} \subseteq DOMAIN files[TOKEN_FILE]
        /\ files[TOKEN_FILE]["expires_at"] > now)
       => (/\ authLast'.outcome =
                 [kind |-> "return", value |-> <<files[TOKEN_FILE]["access_token"]>>]
           /\ authLast'.calls = <<>>
           /\ files' = files)]_vars

\* a call that took the fast path on a record that is still unexpired
C1_Witness ==
    /\ authLast.op = "get_access_token"
    /\ authLast.calls = <<>>
    /\ authLast.outcome.kind = "return"
    /\ TOKEN_FILE \in DOMAIN files
    /\ "refresh_token" \in DOMAIN files[TOKEN_FILE]
    /\ files[TOKEN_FILE]["expires_at"] > now
    /\ authLast.outcome.value = <<files[TOKEN_FILE]["access_token"]>>

\* C2: a stored record that is not unexpired and carries a refresh token makes
\* get_access_token send exactly one request, a refresh with that token; when
\* the endpoint answers 2xx the stored record afterwards has the answer's
\* fields with the answer's values, plus expires_at = now + expires_in (0
\* when missing), and no other field: nothing of the old record survives.
C2_RefreshReplacesRecord ==
    [][(/\ CallOfGetAccessToken
        /\ TOKEN_FILE \in DOMAIN files
        /\ "refresh_token" \in DOMAIN files[TOKEN_FILE]
        /\ files[TOKEN_FILE]["refresh_token"] # ""
        /\ ~("expires_at" \in DOMAIN files[TOKEN_FILE]
             /\ files[TOKEN_FILE]["expires_at"] > now))
       => (/\ authLast'.calls =
                 <<[grant_type |-> "refresh_token",
                    arg |-> files[TOKEN_FILE]["refresh_token"]]>>
           /\ Len(authLast'.replies) = 1
           /\ authLast'.replies[1].ok =>
                 LET body == authLast'.replies[1].body
                     kept == files'[TOKEN_FILE]
                 IN  /\ DOMAIN kept = (DOMAIN body) \cup {"expires_at"}
                     /\ \A k \in (DOMAIN body) \ {"expires_at"} : kept[k] = body[k]
                     /\ kept["expires_at"] =
                           now' + (IF "expires_in" \in DOMAIN body
                                   THEN body["expires_in"] ELSE 0))]_vars

\* a refresh through get_access_token whose answer carried no refresh token:
\* the record that held R1 now holds none
C2_Witness ==
    /\ authLast.op = "get_access_token"
    /\ authLast.calls = <<[grant_type |-> "refresh_token", arg |-> "R1"]>>
    /\ authLast.replies[1].ok
    /\ "refresh_token" \notin DOMAIN authLast.replies[1].body
    /\ authLast.outcome.kind = "return"
    /\ "refresh_token" \notin DOMAIN files[TOKEN_FILE]

NoUsableCredential ==
    \/ TOKEN_FILE \notin DOMAIN files
    \/ /\ ~("expires_at" \in DOMAIN files[TOKEN_FILE]
            /\ files[TOKEN_FILE]["expires_at"] > now)
       /\ ~("refresh_token" \in DOMAIN files[TOKEN_FILE]
            /\ files[TOKEN_FILE]["refresh_token"] # "")

AuthRequired ==
    /\ authLast'.outcome.kind = "SystemExit"
    /\ authLast'.outcome.value = authorization_url
    /\ authLast'.calls = <<>>
    /\ files' = files

AuthCodeSet ==
    AUTH_CODE_VAR \in DOMAIN environ /\ environ[AUTH_CODE_VAR] # ""

\* C3 as stated: with no stored record, or an expired one without a refresh
\* token, get_access_token always fails with the authorization-required
\* error, sends nothing to the token endpoint and writes no token file.
C3_AlwaysAuthRequired ==
    [][(CallOfGetAccessToken /\ NoUsableCredential) => AuthRequired]_vars

\* C3 amended: the same holds when CONTA_AZUL_AUTH_CODE is unset or empty;
\* when it is set, get_access_token itself sends one authorization_code
\* request carrying that code.
C3_AuthRequiredWithoutCode ==
    [][(CallOfGetAccessToken /\ NoUsableCredential)
       => IF AuthCodeSet
          THEN authLast'.calls =
                  <<[grant_type |-> "authorization_code",
                     arg |-> environ[AUTH_CODE_VAR]]>>
          ELSE AuthRequired]_vars

\* get_access_token failed for want of a code on an expired record that has
\* no usable refresh token
C3_Witness ==
    /\ authLast.op = "get_access_token"
    /\ authLast.outcome.kind = "SystemExit"
    /\ TOKEN_FILE \in DOMAIN files
    /\ files[TOKEN_FILE]["expires_at"] <= now
    /\ AUTH_CODE_VAR \in DOMAIN environ

\* the step is a call of exchange_code, refresh or get_access_token that the
\* token endpoint answered with a non-2xx status
TokenCallRefused ==
    /\ authLast'.op \in {"exchange_code", "refresh", "get_access_token"}
    /\ authLast'.replies # <<>>
    /\ ~authLast'.replies[1].ok

\* the stored record makes get_access_token take the refresh path
RefreshableRecord ==
    /\ TOKEN_FILE \in DOMAIN files
    /\ ~("expires_at" \in DOMAIN files[TOKEN_FILE]
         /\ files[TOKEN_FILE]["expires_at"] > now)
    /\ "refresh_token" \in DOMAIN files[TOKEN_FILE]
    /\ files[TOKEN_FILE]["refresh_token"] # ""

\* C12: a refresh or code exchange answered with a non-2xx status fails with
\* an error, leaves the token file (and the environment) as it was, sends
\* its request once only, and a refresh that get_access_token made fails the
\* call without any authorization_code request, a code being set or not.
C12_RefusedTokenCallFails ==
    [][TokenCallRefused
       => (/\ authLast'.outcome.kind = "HTTPError"
           /\ files' = files
           /\ environ' = environ
           /\ Len(authLast'.calls) = 1
           /\ Len(authLast'.replies) = 1
           /\ (authLast'.op = "get_access_token" /\ RefreshableRecord)
                 => authLast'.calls =
                       <<[grant_type |-> "refresh_token",
                          arg |-> files[TOKEN_FILE]["refresh_token"]]>>)]_vars

\* get_access_token tried a refresh with R1 that was refused while a code
\* was set: it failed, the record still holds R1 and the code is still set
C12_Witness ==
    /\ authLast.op = "get_access_token"
    /\ authLast.calls = <<[grant_type |-> "refresh_token", arg |-> "R1"]>>
    /\ ~authLast.replies[1].ok
    /\ authLast.outcome.kind = "HTTPError"
    /\ AuthCodeSet
    /\ TOKEN_FILE \in DOMAIN files
    /\ "refresh_token" \in DOMAIN files[TOKEN_FILE]
    /\ files[TOKEN_FILE]["refresh_token"] = "R1"

(***************************************************************************)
(* fetch_all claims, checked under SpecFetch                               *)
(***************************************************************************)
PagesNeeded(t) == (t + PAGE_SIZE - 1) \div PAGE_SIZE

WellFormed(r) ==
    /\ r.status_ok /\ r.isJson /\ r.isDict /\ r.keys = {"itens", "itens_totais"}
    /\ r.itensIsList /\ r.badAt = 0 /\ r.totalIsInt

\* every response so far is the server's full page of PAGE_SIZE for the page
\* asked, declaring the number of events the server holds
FullPagesSoFar ==
    \A i \in DOMAIN exchanges :
        LET q == exchanges[i].request
            r == exchanges[i].response
            before == (q.pagina - 1) * PAGE_SIZE
        IN  /\ WellFormed(r)
            /\ r.total = server.held
            /\ r.first = before + 1
            /\ r.count = Max(0, Min(PAGE_SIZE, server.held - before))

\* C4: against a server that holds T > 0 events and serves full pages of
\* PAGE_SIZE declaring T, fetch_all asks for pages 1, 2, ... in order, each
\* once, with tamanho_pagina = PAGE_SIZE, never fails, returns after exactly
\* ceil(T / PAGE_SIZE) requests and returns the events 1..T in server order.
C4_FullPagesInOrder ==
    (server.held > 0 /\ FullPagesSoFar)
    => /\ \A i \in DOMAIN exchanges :
             exchanges[i].request = [pagina |-> i, tamanho_pagina |-> PAGE_SIZE]
       /\ fetchPc = "loop" => Len(exchanges) < PagesNeeded(server.held)
       /\ fetchPc # "loop" =>
             /\ fetchPc = "returned"
             /\ Len(exchanges) = PagesNeeded(server.held)
             /\ fetchResult = <<[k \in 1..server.held |-> k]>>

\* 250 events fetched in three pages of 100, 100 and 50
C4_Witness ==
    /\ fetchPc = "returned"
    /\ server.held = 250
    /\ FullPagesSoFar
    /\ Len(exchanges) = 3
    /\ exchanges[1].response.count = 100
    /\ exchanges[2].response.count = 100
    /\ exchanges[3].response.count = 50
    /\ Len(fetchResult[1]) = 250

\* the step that receives a response: the exchange it adds to the log
Received == exchanges' = Append(exchanges, exchanges'[Len(exchanges')])
ReceivedResponse == exchanges'[Len(exchanges')].response

\* C5: a well-formed page with an empty itens array that arrives while fewer
\* items are accumulated than the captured total ends fetch_all there: it
\* returns, without error, exactly what the earlier pages accumulated; once
\* it has returned no page is requested.
C5_EmptyPageStops ==
    [][/\ (/\ fetchPc = "loop"
           /\ Received
           /\ WellFormed(ReceivedResponse)
           /\ ReceivedResponse.count = 0
           /\ Len(collected) < total_expected'[1])
          => (/\ fetchPc' = "returned"
              /\ fetchError' = ""
              /\ fetchResult' = <<collected>>)
       /\ fetchPc = "returned" => exchanges' = exchanges]_vars

\* fetch_all returned on an empty second-or-later page, short of the total
C5_Witness ==
    /\ fetchPc = "returned"
    /\ Len(exchanges) >= 2
    /\ exchanges[Len(exchanges)].response.count = 0
    /\ WellFormed(exchanges[Len(exchanges)].response)
    /\ collected # <<>>
    /\ Len(collected) < total_expected[1]
    /\ fetchResult = <<collected>>

ApiErrors ==
    {"ApiError: objeto JSON deve ser um dicionario",
     "ApiError: campo 'itens' ausente",
     "ApiError: campo 'itens_totais' ausente",
     "ApiError: campo 'itens' deve ser uma lista",
     "ApiError: cada item deve ser um objeto JSON"}

\* C6: a 2xx response whose JSON is not an object, or lacks itens or
\* itens_totais, or whose itens is not a list, makes fetch_all raise ApiError
\* at that response with nothing of it accumulated and nothing returned; once
\* it has raised no page is requested, the failed one included.
C6_MalformedRaisesApiError ==
    [][/\ (/\ fetchPc = "loop"
           /\ Received
           /\ ReceivedResponse.status_ok
           /\ ReceivedResponse.isJson
           /\ \/ ~ReceivedResponse.isDict
              \/ "itens" \notin ReceivedResponse.keys
              \/ "itens_totais" \notin ReceivedResponse.keys
              \/ ~ReceivedResponse.itensIsList)
          => (/\ fetchPc' = "raised"
              /\ fetchError' \in ApiErrors
              /\ collected' = collected
              /\ fetchResult' = <<>>)
       /\ fetchPc = "raised" => exchanges' = exchanges]_vars

\* a second page without itens_totais, carrying events, raised ApiError and
\* left only the first page's items accumulated
C6_Witness ==
    /\ fetchPc = "raised"
    /\ fetchError = "ApiError: campo 'itens_totais' ausente"
    /\ Len(exchanges) = 2
    /\ exchanges[2].response.keys = {"itens"}
    /\ exchanges[2].response.count > 0
    /\ Len(collected) = exchanges[1].response.count
    /\ fetchResult = <<>>

\* every response so far is a 2xx JSON object with an itens list and an
\* integer itens_totais
EnvelopesOk ==
    \A i \in DOMAIN exchanges :
        LET r == exchanges[i].response
        IN  /\ r.status_ok /\ r.isJson /\ r.isDict
            /\ r.keys = {"itens", "itens_totais"}
            /\ r.itensIsList /\ r.totalIsInt

\* the total the first page declared
FirstTotal == exchanges[1].response.total

\* the captured total is the first page's, and the requests sent number at
\* most max(1, T1), the loop being over once that many were sent
WithinFirstTotal ==
    (EnvelopesOk /\ exchanges # <<>>)
    => /\ total_expected = <<FirstTotal>>
       /\ Len(exchanges) <= Max(1, FirstTotal)
       /\ Len(exchanges) = Max(1, FirstTotal) => fetchPc # "loop"

\* C11: fetch_all terminates: it eventually returns or raises; over
\* well-formed responses only the total T1 of the first page is captured,
\* whatever totals later pages declare, and the call is over after at most
\* max(1, T1) page requests.
C11_TerminatesWithinFirstTotal ==
    []WithinFirstTotal /\ <>(fetchPc # "loop")

\* a server serving one event per page declared 4 on the first page and 0 on
\* the second: fetch_all went on to the empty fourth page and returned the
\* three events after max(1, 4) = 4 requests
C11_Witness ==
    /\ fetchPc = "returned"
    /\ EnvelopesOk
    /\ Len(exchanges) = 4
    /\ FirstTotal = 4
    /\ exchanges[2].response.total = 0
    /\ exchanges[4].response.count = 0
    /\ total_expected = <<4>>
    /\ fetchResult = <<<<1, 2, 3>>>>

(***************************************************************************)
(* records_to_rows claims, checked under SpecRows                          *)
(***************************************************************************)
\* where a key is first seen: the least (record, field) position holding it
Positions(recs) == UNION {{<<r, f>> : f \in DOMAIN recs[r]} : r \in DOMAIN recs}
Before(p, q) == p[1] < q[1] \/ (p[1] = q[1] /\ p[2] < q[2])
Holds(recs, p, key) == recs[p[1]][p[2]].key = key
AllKeys(recs) == {recs[p[1]][p[2]].key : p \in Positions(recs)}
FirstSeen(recs, key) ==
    CHOOSE p \in Positions(recs) :
        /\ Holds(recs, p, key)
        /\ \A q \in Positions(recs) : Holds(recs, q, key) => ~Before(q, p)

\* the header is the union of the records' keys, each once, first seen first
HeaderIsFirstSeenUnion(recs, header) ==
    /\ {header[c] : c \in DOMAIN header} = {StrVal(key) : key \in AllKeys(recs)}
    /\ \A c, d \in DOMAIN header :
           c < d => /\ header[c] # header[d]
                    /\ Before(FirstSeen(recs, header[c].s), FirstSeen(recs, header[d].s))

\* the fields of a record under a key (at most one)
FieldsUnder(record, key) == {f \in DOMAIN record : record[f].key = key}

\* body rows: one per record, in order, each cell given by CellFor
BodyIs(recs, out, CellFor(_, _)) ==
    /\ Len(out) = Len(recs) + 1
    /\ \A r \in DOMAIN recs :
           /\ Len(out[r + 1]) = Len(out[1])
           /\ \A c \in DOMAIN out[1] : out[r + 1][c] = CellFor(recs[r], out[1][c].s)

\* the cell as C9 states it: the record's value, "" for absent or null
CellAsIs(record, key) ==
    IF FieldsUnder(record, key) = {} THEN StrVal("")
    ELSE LET v == record[CHOOSE f \in FieldsUnder(record, key) : TRUE].value
         IN  IF v = Null THEN StrVal("") ELSE v

\* the cell with an array written as its JSON text
CellAsText(record, key) ==
    IF FieldsUnder(record, key) = {} THEN StrVal("")
    ELSE LET v == record[CHOOSE f \in FieldsUnder(record, key) : TRUE].value
         IN  IF v = Null THEN StrVal("")
             ELSE IF v.k = "list" THEN StrVal("[" \o ToString(v.i) \o "]")
             ELSE v

RowsComputed == values # <<>> /\ records # <<>> /\ AllKeys(records) # {}

\* C9 as stated: the header is the first-seen union of the keys, one row per
\* record follows in record order, and each cell is the record's value for
\* its column, the empty string when that value is absent or null.
C9_CellsAreValues ==
    RowsComputed
    => /\ HeaderIsFirstSeenUnion(records, values[1][1])
       /\ BodyIs(records, values[1], CellAsIs)

\* C9 amended: as stated, except that a value that is an array (or object) is
\* written as its JSON text.
C9_CellsAreNormalisedValues ==
    RowsComputed
    => /\ HeaderIsFirstSeenUnion(records, values[1][1])
       /\ BodyIs(records, values[1], CellAsText)

\* [{a: 3, b: 3}, {a: 3, c: 3}] gave header [a, b, c] and rows
\* [3, 3, ""], [3, "", 3]
C9_Witness ==
    /\ records = << <<[key |-> "a", value |-> IntVal(3)], [key |-> "b", value |-> IntVal(3)]>>,
                    <<[key |-> "a", value |-> IntVal(3)], [key |-> "c", value |-> IntVal(3)]>> >>
    /\ values = << << <<StrVal("a"), StrVal("b"), StrVal("c")>>,
                      <<IntVal(3), IntVal(3), StrVal("")>>,
                      <<IntVal(3), StrVal(""), IntVal(3)>> >> >>

(***************************************************************************)
(* Sink claims, checked under SpecTable, SpecSync and SpecSinks            *)
(***************************************************************************)
\* the step is a call of insert_records; it returned
InsertCalled == insertCalls' = insertCalls + 1
InsertReturned == InsertCalled /\ insertOutcome' = "return"

\* the value stored for a record under a column: null when the record lacks
\* the key, else the record's value in the column's TEXT type
StoredUnder(record, key) ==
    IF FieldsUnder(record, key) = {} THEN Null
    ELSE LET v == record[CHOOSE f \in FieldsUnder(record, key) : TRUE].value
         IN  IF v.k = "int" THEN StrVal(ToString(v.i)) ELSE v

\* one row per record, in order, over the given columns
RowsFor(cols, recs) ==
    [r \in DOMAIN recs |-> [c \in DOMAIN cols |-> StoredUnder(recs[r], cols[c])]]

\* C7: with no CR table, insert_records on a non-empty list creates the table
\* with the first record's keys as its columns, in their order, and inserts
\* one row per record in input order, each row holding the record's values
\* under the columns and null where the record lacks the column.
C7_CreatesTableFromFirstRecord ==
    [][(InsertCalled /\ ~db.exists /\ records # <<>>)
       => (/\ insertOutcome' = "return"
           /\ db'.exists
           /\ db'.columns = [f \in DOMAIN records[1] |-> records[1][f].key]
           /\ db'.rows = RowsFor(db'.columns, records))]_vars

\* the tab holds exactly the cells of vals that are not empty
TabHolds(grid, vals) ==
    /\ \A p \in CellsWritten(vals) :
           vals[p[1]][p[2]] # StrVal("") => (p \in DOMAIN grid /\ grid[p] = vals[p[1]][p[2]])
    /\ \A p \in DOMAIN grid : p \in CellsWritten(vals) /\ vals[p[1]][p[2]] # StrVal("")

\* after the sheet sink ran with R the tab holds the header and rows of R,
\* or nothing when R is empty, and no cell of its prior content
TabReplacedBy(name, fetched) ==
    /\ name \in DOMAIN sheet
    /\ IF fetched[1] = <<>> THEN DOMAIN sheet[name] = {}
       ELSE TabHolds(sheet[name], records_to_rows(fetched[1]))

\* the tabs are distinct: each event type has a tab of its own
OwnTabs == args.worksheet_cr # args.worksheet_cp

\* the sheet sink replaces: right after the receivables are written their tab
\* holds exactly their rows, and at the end of a run with distinct tabs each
\* tab holds exactly the rows of its event type
SheetSinkReplaces ==
    /\ syncPc = "write_cp" => TabReplacedBy(args.worksheet_cr, contas_receber)
    /\ (syncPc = "done" /\ OwnTabs)
          => /\ TabReplacedBy(args.worksheet_cr, contas_receber)
             /\ TabReplacedBy(args.worksheet_cp, contas_pagar)

TableSinkReplaces ==
    InsertReturned => db'.rows = RowsFor(db'.columns, records)

TableSinkAppends ==
    /\ db.exists => /\ db'.exists
                    /\ db'.columns = db.columns
                    /\ Len(db'.rows) >= Len(db.rows)
                    /\ SubSeq(db'.rows, 1, Len(db.rows)) = db.rows
    /\ InsertReturned => db'.rows = db.rows \o RowsFor(db'.columns, records)

\* C8 as stated: both sinks replace: after the sheet sink ran the tab holds
\* exactly the rows of R, and after a call of insert_records with R that
\* returned the table holds exactly the rows of R.
C8_BothSinksReplace ==
    []SheetSinkReplaces /\ [][TableSinkReplaces]_vars

\* C8 amended: the sheet sink replaces (a tab cleared and then written with
\* R holds exactly the rows of R); the table sink appends: no call removes or
\* changes a committed row or a column, and a call that returned added one
\* row per record of R after the rows already there.
C8_SheetReplacesTableAppends ==
    []SheetSinkReplaces /\ [][TableSinkAppends]_vars

\* insert_records ran twice with the same two records on a table that held a
\* row: the table holds that row and both records' rows twice
C8_Witness ==
    /\ insertCalls = 2
    /\ insertOutcome = "return"
    /\ Len(records) = 2
    /\ db.columns = <<"b", "c">>
    /\ db.rows = << <<StrVal("3"), Null>> >> \o RowsFor(db.columns, records)
                    \o RowsFor(db.columns, records)

CallsTo(name, op) == {n \in DOMAIN sheetCalls : sheetCalls[n] = [op |-> op, worksheet |-> name]}

ClearedAndLeftEmpty(name) ==
    /\ name \in DOMAIN sheet
    /\ DOMAIN sheet[name] = {}
    /\ CallsTo(name, "clear") # {}
    /\ CallsTo(name, "update") = {}

\* the fetch returned at least one record
FetchedSome(fetched) == fetched # <<>> /\ fetched[1] # <<>>

=============================================================================
